---- MODULE Spec2Model ----
(***************************************************************************)
(* docs-to-mcp-cli: the generator (generateServer) embeds markdown files   *)
(* in the source text of an MCP server; the generated server answers       *)
(* list_docs, get_doc and search_docs over the embedded documents.         *)
(*                                                                         *)
(* A string is a sequence of one-character strings.  A response text is a  *)
(* sequence of pieces: the characters of documents, ids and queries, and   *)
(* the fixed texts of the handlers' templates, each kept as one piece.     *)
(***************************************************************************)
EXTENDS Integers, Sequences, FiniteSets, TLC

VARIABLES files, pc, nread, genDocs, serverCode, docs, fuse, response, probe,
          argv, packageName, outDir, log, toolName, TOOL_NAME, built, inflight

vars ==
  <<files, pc, nread, genDocs, serverCode, docs, fuse, response, probe,
    argv, packageName, outDir, log, toolName, TOOL_NAME, built, inflight>>

(***************************************************************************)
(* Characters                                                              *)
(***************************************************************************)
BSL == "\\"
(* The backtick (the parser takes no backtick in a string). *)
BQ == "BACKTICK"
SQ == "'"
DOLLAR == "$"
LBRACE == "{"
CRc == "\r"
LFc == "\n"
SP == " "

(* Bounds of the model. *)
MaxContentLen == 3
MaxEmbedLen == 2
MaxQueryLen == 3
PreviewSlack == 2

RECURSIVE StringsUpTo(_, _)
StringsUpTo(chars, n) ==
  IF n = 0 THEN {<<>>}
  ELSE LET shorter == StringsUpTo(chars, n - 1)
       IN shorter \cup {Append(s, c) : s \in shorter, c \in chars}

(* The pieces one after another, joined half by half. *)
RECURSIVE Concat(_)
Concat(seqs) ==
  IF seqs = <<>> THEN <<>>
  ELSE IF Len(seqs) = 1 THEN seqs[1]
  ELSE LET h == Len(seqs) \div 2
       IN Concat(SubSeq(seqs, 1, h)) \o Concat(SubSeq(seqs, h + 1, Len(seqs)))

RECURSIVE Join(_, _)
Join(seqs, sep) ==
  IF seqs = <<>> THEN <<>>
  ELSE IF Len(seqs) = 1 THEN seqs[1]
  ELSE seqs[1] \o sep \o Join(Tail(seqs), sep)

Min(a, b) == IF a <= b THEN a ELSE b
Max(a, b) == IF a >= b THEN a ELSE b

(* String.prototype.slice(from, to) / substring(from, to), 0-based, end exclusive,
   for 0 <= from. *)
Substring(str, from, to) ==
  LET t == Min(to, Len(str)) IN
  IF from >= t THEN <<>> ELSE SubSeq(str, from + 1, t)

(***************************************************************************)
(* JavaScript objects with string values: the own properties in the order  *)
(* Object.entries lists them (array-index keys first, ascending; then the  *)
(* other keys in creation order).                                          *)
(***************************************************************************)
Digits == {"0", "1", "2", "3", "4", "5", "6", "7", "8", "9"}
DigitVal(c) == CASE c = "0" -> 0 [] c = "1" -> 1 [] c = "2" -> 2 [] c = "3" -> 3
                 [] c = "4" -> 4 [] c = "5" -> 5 [] c = "6" -> 6 [] c = "7" -> 7
                 [] c = "8" -> 8 [] c = "9" -> 9

RECURSIVE ToNumber(_)
ToNumber(key) ==
  IF key = <<>> THEN 0
  ELSE 10 * ToNumber(SubSeq(key, 1, Len(key) - 1)) + DigitVal(key[Len(key)])

(* A canonical array index: decimal digits, no leading zero; the model's keys are
   far shorter than the 2^32 - 2 limit. *)
IsArrayIndex(key) ==
  /\ key # <<>>
  /\ Len(key) <= 8
  /\ \A i \in 1..Len(key) : key[i] \in Digits
  /\ (Len(key) > 1 => key[1] # "0")

PROTO == <<"_", "_", "p", "r", "o", "t", "o", "_", "_">>
S_constructor == <<"c", "o", "n", "s", "t", "r", "u", "c", "t", "o", "r">>
S_toString == <<"t", "o", "S", "t", "r", "i", "n", "g">>

(* Members every object literal inherits from Object.prototype (those the model's
   lookups use). *)
ObjectPrototypeMembers == {S_constructor, S_toString, PROTO}

HasOwn(obj, key) == \E i \in 1..Len(obj) : obj[i].name = key

OwnIndex(obj, key) == CHOOSE i \in 1..Len(obj) : obj[i].name = key

(* Where a new key is created among the own keys. *)
InsertPos(obj, key) ==
  IF IsArrayIndex(key)
  THEN Cardinality({i \in 1..Len(obj) :
         IsArrayIndex(obj[i].name) /\ ToNumber(obj[i].name) < ToNumber(key)}) + 1
  ELSE Len(obj) + 1

(* CreateDataProperty / [[Set]] of a string value on a plain object. *)
ObjDefine(obj, key, val) ==
  IF HasOwn(obj, key)
  THEN [obj EXCEPT ![OwnIndex(obj, key)] = [name |-> key, content |-> val]]
  ELSE LET p == InsertPos(obj, key)
       IN SubSeq(obj, 1, p - 1) \o <<[name |-> key, content |-> val]>>
            \o SubSeq(obj, p, Len(obj))

(* A key that is already there keeps its first value. *)
ObjSet_KeepsFirst(obj, key, val) ==
  IF key = PROTO \/ HasOwn(obj, key) THEN obj ELSE ObjDefine(obj, key, val)

(* obj[key] = val and the literal's  'key': val : the key __proto__ reaches the
   prototype setter, which ignores a string. *)
ObjSet(obj, key, val) == IF key = PROTO THEN obj ELSE ObjDefine(obj, key, val)

(* obj[key]: a JavaScript value, [type, val]. *)
Undefined == [type |-> "undefined", val |-> <<>>]
StringValue(s) == [type |-> "string", val |-> s]
ObjGet(obj, key) ==
  IF HasOwn(obj, key) THEN StringValue(obj[OwnIndex(obj, key)].content)
  ELSE IF key = PROTO THEN [type |-> "object", val |-> <<>>]
  ELSE IF key \in ObjectPrototypeMembers THEN [type |-> "function", val |-> <<>>]
  ELSE Undefined

(***************************************************************************)
(* The generator: escaping and embedding the documents                     *)
(***************************************************************************)
(* str.replace(/c/g, rep): every occurrence of the character, left to right. *)
ReplaceChar(str, c, rep) ==
  Concat([i \in 1..Len(str) |-> IF str[i] = c THEN rep ELSE <<str[i]>>])

(* str.replace(/\${/g, '\\${'): a dollar that a brace follows gets a backslash
   before it (two occurrences of the pair never overlap). *)
ReplaceDollarBrace(str) ==
  Concat([i \in 1..Len(str) |->
            IF str[i] = DOLLAR /\ i + 1 <= Len(str) /\ str[i + 1] = LBRACE
            THEN <<BSL, DOLLAR>>
            ELSE <<str[i]>>])

(* Without the first replace: backslashes are left as they are. *)
escapeTemplateLiteral_NoBackslash(str) ==
  ReplaceDollarBrace(ReplaceChar(str, BQ, <<BSL, BQ>>))

escapeTemplateLiteral(str) ==
  ReplaceDollarBrace(ReplaceChar(ReplaceChar(str, BSL, <<BSL, BSL>>), BQ, <<BSL, BQ>>))

(* One line of docsEntries: the name in single quotes, the content in a template
   literal. *)
docsEntry(e) ==
  <<SP, SP, SQ>> \o escapeTemplateLiteral(e.name) \o <<SQ, ":", SP, BQ>>
    \o escapeTemplateLiteral(e.content) \o <<BQ>>

docsEntries(obj) == Join([i \in 1..Len(obj) |-> docsEntry(obj[i])], <<",", LFc>>)

(***************************************************************************)
(* The generated program's  const docs = { ...docsEntries... } : the       *)
(* literals as the JavaScript grammar reads them.                          *)
(***************************************************************************)
LexFail == [ok |-> FALSE, val |-> <<>>, next |-> 0]

(* \c in a string or template literal, for the characters the model uses: a line
   terminator continues the line, b is the backspace, every other character
   stands for itself. *)
EscapeValue(c) ==
  IF c \in {LFc, CRc} THEN <<>>
  ELSE IF c = "b" THEN <<"\\b">>
  ELSE <<c>>

EscapeEnd(s, i) ==
  IF s[i] = CRc /\ i + 1 <= Len(s) /\ s[i + 1] = LFc THEN i + 2 ELSE i + 1

(* The first position from i on whose character the lexer looks at, or the
   position after the end: the characters before it are source characters that
   stand for themselves. *)
PlainEnd(s, i, stops) ==
  IF \E j \in i..Len(s) : s[j] \in stops
  THEN CHOOSE j \in i..Len(s) : s[j] \in stops /\ \A k \in i..(j - 1) : s[k] \notin stops
  ELSE Len(s) + 1

(* A single-quoted string literal, read from the character after its opening
   quote. *)
RECURSIVE LexString(_, _, _)
LexString(s, i, acc) ==
  IF i > Len(s) THEN LexFail
  ELSE IF PlainEnd(s, i, {SQ, LFc, CRc, BSL}) > i
       THEN LET j == PlainEnd(s, i, {SQ, LFc, CRc, BSL})
            IN LexString(s, j, acc \o SubSeq(s, i, j - 1))
  ELSE IF s[i] = SQ THEN [ok |-> TRUE, val |-> acc, next |-> i + 1]
  ELSE IF s[i] \in {LFc, CRc} THEN LexFail
  ELSE IF s[i] = BSL
       THEN IF i + 1 > Len(s) THEN LexFail
            ELSE LexString(s, EscapeEnd(s, i + 1), acc \o EscapeValue(s[i + 1]))
  ELSE LexString(s, i + 1, Append(acc, s[i]))

(* A template literal, read from the character after its opening backtick: its
   cooked value.  CR and CRLF are cooked to LF; a substitution ends the plain
   template. *)
RECURSIVE LexTemplate(_, _, _)
LexTemplate(s, i, acc) ==
  IF i > Len(s) THEN LexFail
  ELSE IF PlainEnd(s, i, {BQ, DOLLAR, CRc, BSL}) > i
       THEN LET j == PlainEnd(s, i, {BQ, DOLLAR, CRc, BSL})
            IN LexTemplate(s, j, acc \o SubSeq(s, i, j - 1))
  ELSE IF s[i] = BQ THEN [ok |-> TRUE, val |-> acc, next |-> i + 1]
  ELSE IF s[i] = DOLLAR /\ i + 1 <= Len(s) /\ s[i + 1] = LBRACE THEN LexFail
  ELSE IF s[i] = CRc THEN LexTemplate(s, EscapeEnd(s, i), Append(acc, LFc))
  ELSE IF s[i] = BSL
       THEN IF i + 1 > Len(s) THEN LexFail
            ELSE LexTemplate(s, EscapeEnd(s, i + 1), acc \o EscapeValue(s[i + 1]))
  ELSE LexTemplate(s, i + 1, Append(acc, s[i]))

RECURSIVE SkipWs(_, _)
SkipWs(s, i) == IF i <= Len(s) /\ s[i] \in {SP, LFc, CRc} THEN SkipWs(s, i + 1) ELSE i

At(s, i, c) == i <= Len(s) /\ s[i] = c

(* The property definitions between the braces, separated by commas. *)
RECURSIVE ParseProps(_, _, _)
ParseProps(s, i, acc) ==
  LET j == SkipWs(s, i) IN
  IF j > Len(s) THEN [ok |-> TRUE, props |-> acc]
  ELSE IF ~At(s, j, SQ) THEN [ok |-> FALSE, props |-> <<>>]
  ELSE LET k == LexString(s, j + 1, <<>>) IN
       IF ~k.ok THEN [ok |-> FALSE, props |-> <<>>]
       ELSE LET c == SkipWs(s, k.next) IN
            IF ~At(s, c, ":") \/ ~At(s, SkipWs(s, c + 1), BQ)
            THEN [ok |-> FALSE, props |-> <<>>]
            ELSE LET v == LexTemplate(s, SkipWs(s, c + 1) + 1, <<>>) IN
                 IF ~v.ok THEN [ok |-> FALSE, props |-> <<>>]
                 ELSE LET e == SkipWs(s, v.next)
                          props == Append(acc, [name |-> k.val, content |-> v.val])
                      IN IF e > Len(s) THEN [ok |-> TRUE, props |-> props]
                         ELSE IF At(s, e, ",") THEN ParseProps(s, e + 1, props)
                         ELSE [ok |-> FALSE, props |-> <<>>]

(* esbuild accepts the temporary file when the literal parses. *)
Bundles(code) == ParseProps(code, 1, <<>>).ok

RECURSIVE DefineAll(_, _)
DefineAll(obj, props) ==
  IF props = <<>> THEN obj
  ELSE DefineAll(ObjSet(obj, Head(props).name, Head(props).content), Tail(props))

(* The value of the object literal. *)
EvalDocs(code) == DefineAll(<<>>, ParseProps(code, 1, <<>>).props)

(***************************************************************************)
(* The generated program's configuration: the labels are put between       *)
(* single quotes as they are, and the lines are read as JavaScript.        *)
(***************************************************************************)
CONST_SERVER_NAME == "const SERVER_NAME = "
CONST_TOOL_NAME == "const TOOL_NAME = "
DOCS_LB == "docs["
LINE_COMMENT == "//"

(* const SERVER_NAME = '${packageName}'; ... const TOOL_NAME = '${toolName || ''}';
   // Injected by the CLI *)
configLines(pkg, tool) ==
  <<CONST_SERVER_NAME, SQ>> \o pkg \o <<SQ, ";", LFc>>
    \o <<CONST_TOOL_NAME, SQ>> \o tool
    \o <<SQ, ";", SP, LINE_COMMENT, " Injected by the CLI", LFc>>

StmtFail == [ok |-> FALSE, stmts |-> <<>>]

(* The statements of the configuration lines, for the statements the labels of
   the model can make of them: a const declaration whose initialiser is a string
   literal, an expression statement that is a string literal, an assignment
   docs['key'] = 'value', each closed by a semicolon, and a line comment.
   Anything else the labels of the model produce is a syntax error. *)
RECURSIVE ParseStatements(_, _, _)
ParseStatements(s, i, acc) ==
  LET j == SkipWs(s, i) IN
  IF j > Len(s) THEN [ok |-> TRUE, stmts |-> acc]
  ELSE IF s[j] \in {CONST_SERVER_NAME, CONST_TOOL_NAME}
       THEN IF ~At(s, j + 1, SQ) THEN StmtFail
            ELSE LET v == LexString(s, j + 2, <<>>) IN
                 IF ~v.ok THEN StmtFail
                 ELSE IF ~At(s, v.next, ";") THEN StmtFail
                 ELSE ParseStatements(s, v.next + 1,
                        Append(acc, [kind |-> "const", name |-> s[j],
                                     key |-> <<>>, val |-> v.val]))
  ELSE IF s[j] = SQ
       THEN LET v == LexString(s, j + 1, <<>>) IN
            IF ~v.ok THEN StmtFail
            ELSE IF ~At(s, v.next, ";") THEN StmtFail
            ELSE ParseStatements(s, v.next + 1, acc)
  ELSE IF s[j] = DOCS_LB
       THEN IF ~At(s, j + 1, SQ) THEN StmtFail
            ELSE LET k == LexString(s, j + 2, <<>>) IN
                 IF ~k.ok THEN StmtFail
                 ELSE IF ~(At(s, k.next, "]") /\ At(s, k.next + 1, "=")
                             /\ At(s, k.next + 2, SQ))
                      THEN StmtFail
                 ELSE LET v == LexString(s, k.next + 3, <<>>) IN
                      IF ~v.ok THEN StmtFail
                      ELSE IF ~At(s, v.next, ";") THEN StmtFail
                      ELSE ParseStatements(s, v.next + 1,
                             Append(acc, [kind |-> "assign", name |-> DOCS_LB,
                                          key |-> k.val, val |-> v.val]))
  ELSE IF s[j] = LINE_COMMENT
       THEN ParseStatements(s, PlainEnd(s, j, {LFc, CRc}), acc)
  ELSE StmtFail

(* The statements run in order on the module's bindings. *)
RECURSIVE RunStatements(_, _)
RunStatements(env, stmts) ==
  IF stmts = <<>> THEN env
  ELSE LET st == Head(stmts)
           after ==
             IF st.kind = "assign"
             THEN [env EXCEPT !.docs = ObjSet(env.docs, st.key, st.val)]
             ELSE IF st.name = CONST_TOOL_NAME
                  THEN [env EXCEPT !.TOOL_NAME = st.val]
                  ELSE [env EXCEPT !.SERVER_NAME = st.val]
       IN RunStatements(after, Tail(stmts))

(* A truthy value or the other: toolName || '' *)
OrEmpty(v) == IF v = Undefined \/ v.val = <<>> THEN <<>> ELSE v.val

(* esbuild accepts the whole temporary file. *)
BundlesWith(code, pkg, tool) ==
  Bundles(code) /\ ParseStatements(configLines(pkg, OrEmpty(tool)), 1, <<>>).ok

(* The module's bindings after its top-level statements up to TOOL_NAME. *)
EvalModule(code, pkg, tool) ==
  RunStatements([docs |-> EvalDocs(code), SERVER_NAME |-> <<>>, TOOL_NAME |-> <<>>],
                ParseStatements(configLines(pkg, OrEmpty(tool)), 1, <<>>).stmts)

(***************************************************************************)
(* The generated server: configuration                                     *)
(***************************************************************************)
(* FUSE_OPTIONS.threshold = 0.4 = ThresholdNum / ThresholdDen *)
ThresholdNum == 2
ThresholdDen == 5
(* FUSE_OPTIONS.keys: weight 1.0 for content and 0.5 for name, as integers in
   the same ratio (Fuse divides each by their sum). *)
ContentWeight == 2
NameWeight == 1
minMatchCharLength == 3
LIST_DOCS_PREVIEW_CHARS == 90
SEARCH_CONTEXT_CHARS == 200

(***************************************************************************)
(* fuse.js (Fuse 7.1, extended search, ignoreLocation, findAllMatches,     *)
(* includeMatches): the part of the library the handlers rely on.          *)
(***************************************************************************)
(* The bits of a 32-bit integer, as the set of the positions that are set. *)
MAX_BITS == 32

UpperCaseLetters ==
  <<"A", "B", "C", "D", "E", "F", "G", "H", "I", "J", "K", "L", "M">>
    \o <<"N", "O", "P", "Q", "R", "S", "T", "U", "V", "W", "X", "Y", "Z">>
    \o <<"É">>
LowerCaseLetters ==
  <<"a", "b", "c", "d", "e", "f", "g", "h", "i", "j", "k", "l", "m">>
    \o <<"n", "o", "p", "q", "r", "s", "t", "u", "v", "w", "x", "y", "z">>
    \o <<"é">>

ToLowerChar(c) ==
  IF \E i \in 1..Len(UpperCaseLetters) : UpperCaseLetters[i] = c
  THEN LowerCaseLetters[CHOOSE i \in 1..Len(UpperCaseLetters) : UpperCaseLetters[i] = c]
  ELSE c

(* String.prototype.toLowerCase *)
ToLowerCase(str) == [i \in 1..Len(str) |-> ToLowerChar(str[i])]

(* U+0301, the combining acute accent: "e" followed by it is the decomposed
   form of "é". *)
COMBINING_ACUTE == "U+0301"

(* stripDiacritics: str.normalize('NFD') with the combining marks removed.  A
   precomposed letter becomes the letter without its mark; a combining mark of
   the text is removed, and the text gets shorter. *)
StripDiacriticsChar(c) == CASE c = "é" -> "e" [] c = "É" -> "E" [] OTHER -> c
StripDiacritics(str) ==
  LET kept == SelectSeq(str, LAMBDA c : c # COMBINING_ACUTE)
  IN [i \in 1..Len(kept) |-> StripDiacriticsChar(kept[i])]

(* The search is told to tell upper case from lower case. *)
isCaseSensitive_True == TRUE

(* FUSE_OPTIONS: isCaseSensitive, ignoreDiacritics *)
isCaseSensitive == FALSE
ignoreDiacritics == TRUE

(* What the searchers do to a pattern and to a text before they compare them. *)
Normalize(str) ==
  LET cased == IF isCaseSensitive THEN str ELSE ToLowerCase(str)
  IN IF ignoreDiacritics THEN StripDiacritics(cased) ELSE cased

(* isBlank: the index keeps no value for a field that trims to nothing. *)
IsBlank(str) == \A i \in 1..Len(str) : str[i] \in {SP, LFc, CRc}

(* A score is EPSILON^eps * 0.001^milli * num/den, with 0 < num/den <= 1 and
   den below 1000: the comparisons below order such numbers exactly. *)
ScoreOne == [eps |-> 0, milli |-> 0, num |-> 1, den |-> 1]
ScoreEpsilon == [eps |-> 1, milli |-> 0, num |-> 1, den |-> 1]
ScoreMilli == [eps |-> 0, milli |-> 1, num |-> 1, den |-> 1]

ScoreEq(a, b) ==
  a.eps = b.eps /\ a.milli = b.milli /\ a.num * b.den = b.num * a.den

ScoreLess(a, b) ==
  \/ a.eps > b.eps
  \/ a.eps = b.eps /\ a.milli > b.milli
  \/ a.eps = b.eps /\ a.milli = b.milli /\ a.num * b.den < b.num * a.den

ScoreMul(a, b) ==
  [eps |-> a.eps + b.eps, milli |-> a.milli + b.milli,
   num |-> a.num * b.num, den |-> a.den * b.den]

RECURSIVE ScorePow(_, _)
ScorePow(a, n) == IF n = 0 THEN ScoreOne ELSE ScoreMul(a, ScorePow(a, n - 1))

(* computeScore of the bitap search with ignoreLocation: errors / pattern.length,
   and the result's Math.max(0.001, finalScore). *)
BitapScore(errors, patternLen) ==
  IF errors = 0 THEN ScoreMilli
  ELSE [eps |-> 0, milli |-> 0, num |-> errors, den |-> patternLen]

(* createPatternAlphabet: the bit of pattern position p (from 1) is len - p. *)
PatternAlphabet(pattern, c) ==
  {Len(pattern) - p : p \in {q \in 1..Len(pattern) : pattern[q] = c}}

(* (x << 1) | 1 *)
Shl1(bits) == {b + 1 : b \in {x \in bits : x + 1 < MAX_BITS}} \cup {0}

(* One pass of the bitap search at error level i over the whole text
   (findAllMatches): bitArr[j] for j from textLen down to 1, from
   bitArr[textLen + 1] = (1 << i) - 1 and the previous level's lastBitArr. *)
BitArr(text, pattern, i, lastBitArr) ==
  LET n == Len(text)
      Before(j, rest) ==
        <<(Shl1(rest[1]) \cap PatternAlphabet(pattern, text[j]))
            \cup (IF i > 0
                  THEN Shl1(lastBitArr[j + 1] \cup lastBitArr[j]) \cup lastBitArr[j + 1]
                  ELSE {})>> \o rest
      RECURSIVE Rows(_)
      Rows(rest) == IF Len(rest) = n + 1 THEN rest ELSE Rows(Before(n + 1 - Len(rest), rest))
  IN Rows(<<0..(i - 1)>>)

(* bitArr[j] & mask, for some j *)
BitapHit(text, pattern, bitArr) ==
  \E j \in 1..Len(text) : (Len(pattern) - 1) \in bitArr[j]

(* The error level of the first pass that finds a match, or -1: a pass for
   level i + 1 runs only while (i + 1) / patternLen <= threshold. *)
RECURSIVE BitapErrors(_, _, _, _)
BitapErrors(text, pattern, i, lastBitArr) ==
  IF i >= Len(pattern) THEN -1
  ELSE LET bitArr == BitArr(text, pattern, i, lastBitArr) IN
       IF BitapHit(text, pattern, bitArr) THEN i
       ELSE IF (i + 1) * ThresholdDen > ThresholdNum * Len(pattern) THEN -1
       ELSE BitapErrors(text, pattern, i + 1, bitArr)

(* matchMask after the passes: a position is set when its character occurs in
   the pattern. *)
MatchMask(text, pattern) ==
  [p \in 1..Len(text) |-> \E q \in 1..Len(pattern) : pattern[q] = text[p]]

(* convertMaskToIndices: the maximal runs of set positions that are at least
   minMatchCharLength long, as [start, end] pairs, 0-based and inclusive. *)
ConvertMaskToIndices(mask) ==
  LET n == Len(mask)
      IsRun(a, b) ==
        /\ \A p \in a..b : mask[p]
        /\ (a = 1 \/ ~mask[a - 1])
        /\ (b = n \/ ~mask[b + 1])
        /\ b - a + 1 >= minMatchCharLength
      starts == {a \in 1..n : \E b \in a..n : IsRun(a, b)}
      EndOf(a) == CHOOSE b \in a..n : IsRun(a, b)
      RECURSIVE InOrder(_)
      InOrder(from) ==
        IF from > n THEN <<>>
        ELSE IF from \in starts
             THEN <<<<from - 1, EndOf(from) - 1>>>> \o InOrder(EndOf(from) + 1)
             ELSE InOrder(from + 1)
  IN InOrder(1)

NoMatch == [isMatch |-> FALSE, score |-> ScoreOne, indices |-> <<>>]

(* BitapSearch.searchIn for a pattern of at most MAX_BITS characters, text and
   pattern already normalized. *)
BitapSearchIn(text, pattern) ==
  IF pattern = text
  THEN [isMatch |-> TRUE, score |-> ScoreEpsilon, indices |-> <<<<0, Len(text) - 1>>>>]
  ELSE IF pattern = <<>> \/ text = <<>> THEN NoMatch
  ELSE LET errors == BitapErrors(text, pattern, 0, <<>>)
           indices == ConvertMaskToIndices(MatchMask(text, pattern))
       IN IF errors < 0 \/ indices = <<>> THEN NoMatch
          ELSE [isMatch |-> TRUE, score |-> BitapScore(errors, Len(pattern)),
                indices |-> indices]

(* parseQuery for a query without blanks and operator characters: one fuzzy
   token, or none for the empty query. *)
ParseQuery(query) == IF query = <<>> THEN <<>> ELSE <<query>>

(* ExtendedSearch.searchIn *)
SearchIn(text, query) ==
  LET tokens == ParseQuery(Normalize(query)) IN
  IF tokens = <<>> THEN NoMatch
  ELSE BitapSearchIn(Normalize(text), tokens[1])

(* _findMatches for one key of one record *)
FindMatches(key, weight, value, query) ==
  IF IsBlank(value) THEN <<>>
  ELSE LET r == SearchIn(value, query) IN
       IF r.isMatch
       THEN <<[key |-> key, weight |-> weight, score |-> r.score, indices |-> r.indices]>>
       ELSE <<>>

(* computeScore of a result: the product over its matches of score^weight; kept
   to the power ContentWeight + NameWeight, which leaves the order as it is. *)
RECURSIVE ComputeScore(_)
ComputeScore(matches) ==
  IF matches = <<>> THEN ScoreOne
  ELSE ScoreMul(ScorePow(Head(matches).score, Head(matches).weight),
                ComputeScore(Tail(matches)))

(* sortFn: by score, then by the record's index. *)
SortBefore(a, b) ==
  IF ScoreEq(a.score, b.score) THEN a.refIndex < b.refIndex
  ELSE ScoreLess(a.score, b.score)

RECURSIVE SortResults(_)
SortResults(results) ==
  IF results = <<>> THEN <<>>
  ELSE LET first == CHOOSE i \in 1..Len(results) :
                      \A j \in (1..Len(results)) \ {i} : SortBefore(results[i], results[j])
           rest == [j \in 1..(Len(results) - 1) |->
                      IF j < first THEN results[j] ELSE results[j + 1]]
       IN <<results[first]>> \o SortResults(rest)

(* new Fuse(Object.entries(docs).map(([name, content]) => ({ name, content })),
   FUSE_OPTIONS): the records of the index. *)
NewFuse_Reversed(obj) ==
  [i \in 1..Len(obj) |->
     [name |-> obj[Len(obj) + 1 - i].name, content |-> obj[Len(obj) + 1 - i].content]]

NewFuse(obj) == [i \in 1..Len(obj) |-> [name |-> obj[i].name, content |-> obj[i].content]]

(* fuse.search(query): the records with a match in some key, sorted. *)
FuseSearch(index, query) ==
  LET MatchesOf(i) ==
        FindMatches("content", ContentWeight, index[i].content, query)
          \o FindMatches("name", NameWeight, index[i].name, query)
      ResultOf(i) ==
        [item |-> index[i], refIndex |-> i - 1, matches |-> MatchesOf(i),
         score |-> ComputeScore(MatchesOf(i))]
      RECURSIVE Collect(_)
      Collect(i) ==
        IF i > Len(index) THEN <<>>
        ELSE (IF MatchesOf(i) # <<>> THEN <<ResultOf(i)>> ELSE <<>>) \o Collect(i + 1)
  IN SortResults(Collect(1))

(***************************************************************************)
(* The generated server: the tool handlers                                 *)
(***************************************************************************)
NoResponse ==
  [tool |-> "none", arg |-> Undefined, kind |-> "none", error |-> "",
   type |-> "string", text |-> <<>>]

Success(tool, arg, value) ==
  [tool |-> tool, arg |-> arg, kind |-> "ok", error |-> "",
   type |-> value.type, text |-> value.val]

Failure(tool, arg, error, message) ==
  [tool |-> tool, arg |-> arg, kind |-> "error", error |-> error,
   type |-> "string", text |-> message]

(* The tool's zod schema, z.string(): what the SDK checks before it calls the
   handler. *)
IsString(arg) == arg.type = "string"

InvalidParams(tool, arg) ==
  Failure(tool, arg, "InvalidParams", <<"Invalid arguments for tool ", tool>>)

NO_DOCUMENTS == <<"No documents found.">>

(* The dots are added only when the content was cut. *)
listEntry_DotsWhenCut(e) ==
  <<"--- ">> \o e.name \o <<" ---\n">>
    \o Substring(e.content, 0, LIST_DOCS_PREVIEW_CHARS)
    \o (IF Len(e.content) > LIST_DOCS_PREVIEW_CHARS THEN <<"...">> ELSE <<>>)

listEntry(e) ==
  <<"--- ">> \o e.name \o <<" ---\n">>
    \o Substring(e.content, 0, LIST_DOCS_PREVIEW_CHARS) \o <<"...">>

(* The last document is left out of the listing. *)
listEntries_SkipsLast(obj) == [i \in 1..(Len(obj) - 1) |-> listEntry(obj[i])]

(* list_docs: the entries of the listing, before they are joined *)
listEntries(obj) == [i \in 1..Len(obj) |-> listEntry(obj[i])]

(* Without the check for an empty list. *)
list_docs_NoSentinel(obj) ==
  Success("list_docs", Undefined, StringValue(Join(listEntries(obj), <<"\n\n">>)))

list_docs(obj) ==
  LET list == Join(listEntries(obj), <<"\n\n">>) IN
  IF list = <<>> THEN Success("list_docs", Undefined, StringValue(NO_DOCUMENTS))
  ELSE Success("list_docs", Undefined, StringValue(list))

NotFoundMessage(name) ==
  <<"Document '">> \o name \o <<"' not found. Use list_docs to see available documents.">>

get_doc(obj, arg) ==
  LET content == ObjGet(obj, arg.val) IN
  IF content = Undefined
  THEN Failure("get_doc", arg, "NotFound", NotFoundMessage(arg.val))
  ELSE Success("get_doc", arg, content)

(* previewEnd without the + 1 that makes matchEnd exclusive. *)
buildPreview_NoPlusOne(content, matchStart, matchEnd) ==
  LET previewStart == Max(0, matchStart - SEARCH_CONTEXT_CHARS)
      previewEnd == Min(Len(content), matchEnd + SEARCH_CONTEXT_CHARS)
      beforeMatch == Substring(content, previewStart, matchStart)
      matchText == Substring(content, matchStart, matchEnd + 1)
      afterMatch == Substring(content, matchEnd + 1, previewEnd)
      previewPrefix == IF previewStart > 0 THEN <<"...">> ELSE <<>>
      previewSuffix == IF previewEnd < Len(content) THEN <<"...">> ELSE <<>>
  IN previewPrefix \o beforeMatch \o <<"**">> \o matchText \o <<"**">>
       \o afterMatch \o previewSuffix

(* The preview of one occurrence [matchStart, matchEnd] (0-based, inclusive). *)
buildPreview(content, matchStart, matchEnd) ==
  LET previewStart == Max(0, matchStart - SEARCH_CONTEXT_CHARS)
      previewEnd == Min(Len(content), matchEnd + SEARCH_CONTEXT_CHARS + 1)
      beforeMatch == Substring(content, previewStart, matchStart)
      matchText == Substring(content, matchStart, matchEnd + 1)
      afterMatch == Substring(content, matchEnd + 1, previewEnd)
      previewPrefix == IF previewStart > 0 THEN <<"...">> ELSE <<>>
      previewSuffix == IF previewEnd < Len(content) THEN <<"...">> ELSE <<>>
  IN previewPrefix \o beforeMatch \o <<"**">> \o matchText \o <<"**">>
       \o afterMatch \o previewSuffix

(* matches.flatMap(...).filter(Boolean) for one result *)
previewsOf(result) ==
  LET OfMatch(match) ==
        IF match.key # "content" \/ match.indices = <<>> THEN <<>>
        ELSE [k \in 1..Len(match.indices) |->
                buildPreview(result.item.content, match.indices[k][1], match.indices[k][2])]
      all == Concat([m \in 1..Len(result.matches) |-> OfMatch(result.matches[m])])
  IN SelectSeq(all, LAMBDA preview : preview # <<>>)

(* The results are formatted in the reverse of the order fuse returned. *)
formattedResults_Reversed(results) ==
  [r \in 1..Len(results) |->
     [file |-> results[Len(results) + 1 - r].item.name,
      previews |-> previewsOf(results[Len(results) + 1 - r])]]

formattedResults(results) ==
  [r \in 1..Len(results) |->
     [file |-> results[r].item.name, previews |-> previewsOf(results[r])]]

RECURSIVE totalMatches(_)
totalMatches(formatted) ==
  IF formatted = <<>> THEN 0
  ELSE Len(Head(formatted).previews) + totalMatches(Tail(formatted))

NoMatchesMessage(query) == <<"No matches found for query: \"">> \o query \o <<"\"">>

fileSection(f) ==
  <<"File: ">> \o f.file \o <<"\n">>
    \o (IF Len(f.previews) > 0
        THEN Concat([i \in 1..Len(f.previews) |->
                       <<"Match ", ToString(i), ":\n">> \o f.previews[i] \o <<"\n\n">>])
        ELSE <<"(Match found but no preview available)\n\n">>)

searchResponse(formatted, query) ==
  <<"Found ", ToString(totalMatches(formatted)), " matches for \"">> \o query
    \o <<"\":\n\n">> \o Concat([i \in 1..Len(formatted) |-> fileSection(formatted[i])])

(* String.prototype.includes *)
Contains(text, w) ==
  \E i \in 0..(Len(text) - Len(w)) : SubSeq(text, i + 1, i + Len(w)) = w

(* The handler keeps only the results whose content holds the query as it is. *)
search_docs_ExactOnly(index, arg) ==
  LET results ==
        SelectSeq(FuseSearch(index, arg.val),
                  LAMBDA r : Contains(r.item.content, arg.val))
  IN IF Len(results) = 0
     THEN Success("search_docs", arg, StringValue(NoMatchesMessage(arg.val)))
     ELSE Success("search_docs", arg,
                  StringValue(searchResponse(formattedResults(results), arg.val)))

search_docs(index, arg) ==
  LET results == FuseSearch(index, arg.val) IN
  IF Len(results) = 0
  THEN Success("search_docs", arg, StringValue(NoMatchesMessage(arg.val)))
  ELSE Success("search_docs", arg,
               StringValue(searchResponse(formattedResults(results), arg.val)))

(***************************************************************************)
(* Inputs                                                                  *)
(***************************************************************************)
SearchChars == {"a", "b"}
EmbedChars == {"a", BSL, BQ, DOLLAR, LBRACE, SQ, CRc, LFc}

FileIds == {<<"a", "a", "b">>, <<"b">>}
EmbedIds == {<<"a">>, <<"a", SQ>>, <<BSL, "a">>}

Contents == StringsUpTo(SearchChars, MaxContentLen)
EmbedContents == StringsUpTo(EmbedChars, MaxEmbedLen)

(* The lists of files a glob can return: distinct paths, in any order. *)
RECURSIVE FileLists(_, _)
FileLists(ids, contents) ==
  {<<>>} \cup
  UNION {{<<[path |-> id, content |-> c]>> \o rest : rest \in FileLists(ids \ {id}, contents)} :
           id \in ids, c \in contents}

(* Arguments of a tool call: a string, no argument, or a value of another type. *)
NotAString == [type |-> "number", val |-> <<>>]
StringArgs(strings) == {StringValue(str) : str \in strings} \cup {Undefined, NotAString}

Names ==
  FileIds \cup EmbedIds \cup ObjectPrototypeMembers \cup {<<>>, <<"a", "b">>}
Queries == StringsUpTo(SearchChars, MaxQueryLen)

(***************************************************************************)
(* The state machine                                                       *)
(***************************************************************************)
(* probe: one call of the search handler's preview construction, for the
   specification that draws a content and a match span. *)
(* argv: what the command line gives for -t/--toolName; the generated program is
   run with this option absent in the specifications that start at the read loop. *)
NoToolNameOption == [given |-> FALSE, name |-> <<>>]

(* packageName: the server label the specifications use when the label is not
   what they vary. *)
DefaultPackageName == <<"TestDocsServer">>

(* outDir: the temporary file, index.js and package.json of the output
   directory, and whether fs.unlinkSync has been called on the temporary file.
   log: the lines of console.warn and console.error and the success line of the
   command line, in the order they are printed. *)
EmptyOutDir ==
  [tempFile |-> "absent", unlinkTried |-> FALSE, indexJs |-> FALSE, packageJson |-> FALSE]

(* The output directory after the bundling and the cleanup, no file system
   operation failing. *)
OutDirAfter(bundled) ==
  [tempFile |-> "deleted", unlinkTried |-> TRUE, indexJs |-> bundled,
   packageJson |-> bundled]

BUNDLING_FAILED == "esbuild bundling failed:"

NoProbe == [content |-> <<>>, matchStart |-> 0, matchEnd |-> 0, preview |-> <<>>]

InitWith(fileLists) ==
  /\ files \in fileLists
  /\ pc = "read"
  /\ nread = 0
  /\ genDocs = <<>>
  /\ serverCode = <<>>
  /\ docs = <<>>
  /\ fuse = <<>>
  /\ response = NoResponse
  /\ probe = NoProbe
  /\ argv = NoToolNameOption
  /\ packageName = DefaultPackageName
  /\ outDir = EmptyOutDir
  /\ log = <<>>
  /\ toolName = Undefined
  /\ TOOL_NAME = <<>>
  /\ built = 0
  /\ inflight = <<>>

Init == InitWith(FileLists(FileIds, Contents))

(* One file, any content over the characters the embedding has to escape. *)
InitEmbed ==
  InitWith({<<[path |-> id, content |-> c]>> : id \in EmbedIds, c \in EmbedContents})

(* generateServer, the read loop: docs[relativePath] = fs.readFileSync(...) *)
ReadFile ==
  /\ pc = "read"
  /\ nread < Len(files)
  /\ genDocs' = ObjSet(genDocs, files[nread + 1].path, files[nread + 1].content)
  /\ nread' = nread + 1
  /\ UNCHANGED <<files, pc, serverCode, docs, fuse, response, probe, argv, packageName,
                 outDir, log, toolName, TOOL_NAME, built, inflight>>

(* generateServer, after the loop: the server code is written and bundled. *)
Bundle ==
  /\ pc = "read"
  /\ nread = Len(files)
  /\ serverCode' = docsEntries(genDocs)
  /\ pc' = IF BundlesWith(serverCode', packageName, toolName) THEN "generated" ELSE "failed"
  /\ outDir' = OutDirAfter(pc' = "generated")
  /\ log' = IF pc' = "generated" THEN log ELSE Append(log, BUNDLING_FAILED)
  /\ UNCHANGED <<files, nread, genDocs, docs, fuse, response, probe, argv, packageName,
                 toolName, TOOL_NAME, built, inflight>>

(* The module is evaluated without building the index. *)
StartServer_NoIndex ==
  /\ pc = "generated"
  /\ docs' = EvalModule(serverCode, packageName, toolName).docs
  /\ TOOL_NAME' = EvalModule(serverCode, packageName, toolName).TOOL_NAME
  /\ pc' = "initialized"
  /\ UNCHANGED <<files, nread, genDocs, serverCode, fuse, built, response, probe, argv,
                 packageName, outDir, log,
                 toolName, inflight>>

(* The generated program starts, its top-level statements run in order: docs,
   TOOL_NAME, fuse = new Fuse(...), the tools are registered. *)
StartServer ==
  /\ pc = "generated"
  /\ docs' = EvalModule(serverCode, packageName, toolName).docs
  /\ TOOL_NAME' = EvalModule(serverCode, packageName, toolName).TOOL_NAME
  /\ fuse' = NewFuse(docs')
  /\ built' = built + 1
  /\ pc' = "initialized"
  /\ UNCHANGED <<files, nread, genDocs, serverCode, response, probe, argv, packageName,
                 outDir, log, toolName,
                 inflight>>

(* main(): server.connect(transport); requests are handled from here on. *)
Connect ==
  /\ pc = "initialized"
  /\ pc' = "serving"
  /\ UNCHANGED <<files, nread, genDocs, serverCode, docs, fuse, response, probe, argv,
                 packageName, outDir, log,
                 toolName, TOOL_NAME, built, inflight>>

CallListDocs ==
  /\ pc = "serving"
  /\ response = NoResponse
  /\ response' = list_docs(docs)
  /\ UNCHANGED <<files, pc, nread, genDocs, serverCode, docs, fuse, probe, argv,
                 packageName, outDir, log, toolName, TOOL_NAME, built, inflight>>

CallGetDoc ==
  /\ pc = "serving"
  /\ response = NoResponse
  /\ \E arg \in StringArgs(Names) :
       response' = IF IsString(arg) THEN get_doc(docs, arg)
                   ELSE InvalidParams("get_doc", arg)
  /\ UNCHANGED <<files, pc, nread, genDocs, serverCode, docs, fuse, probe, argv,
                 packageName, outDir, log, toolName, TOOL_NAME, built, inflight>>

(* The handler takes the first record out of the index it searched. *)
CallSearchDocs_DropsRecord ==
  /\ pc = "serving"
  /\ response = NoResponse
  /\ \E arg \in StringArgs(Queries) :
       response' = IF IsString(arg) THEN search_docs(fuse, arg)
                   ELSE InvalidParams("search_docs", arg)
  /\ fuse' = IF fuse = <<>> THEN fuse ELSE Tail(fuse)
  /\ UNCHANGED <<files, pc, nread, genDocs, serverCode, docs, probe, argv, packageName,
                 outDir, log, toolName, TOOL_NAME, built, inflight>>

CallSearchDocs ==
  /\ pc = "serving"
  /\ response = NoResponse
  /\ \E arg \in StringArgs(Queries) :
       response' = IF IsString(arg) THEN search_docs(fuse, arg)
                   ELSE InvalidParams("search_docs", arg)
  /\ UNCHANGED <<files, pc, nread, genDocs, serverCode, docs, fuse, probe, argv,
                 packageName, outDir, log, toolName, TOOL_NAME, built, inflight>>

(* The SDK sends the handler's result, or the error, to the client. *)
SendResponse ==
  /\ response # NoResponse
  /\ response' = NoResponse
  /\ UNCHANGED <<files, pc, nread, genDocs, serverCode, docs, fuse, probe, argv,
                 packageName, outDir, log, toolName, TOOL_NAME, built, inflight>>

Next ==
  \/ ReadFile
  \/ Bundle
  \/ StartServer
  \/ Connect
  \/ CallListDocs
  \/ CallGetDoc
  \/ CallSearchDocs
  \/ SendResponse

Spec == Init /\ [][Next]_vars

SpecEmbed == InitEmbed /\ [][Next]_vars

(***************************************************************************)
(* Several requests outstanding at once: the SDK takes each request off    *)
(* the transport, calls the tool's handler, and sends the result later.    *)
(* A handler has no await before its return: it runs to its end once       *)
(* called, and other requests are received or answered between the steps.  *)
(***************************************************************************)
MaxInFlight == 2

ConcurrentContents == {<<"a", "a", "b">>}

Request(tool, arg) == [tool |-> tool, arg |-> arg, stage |-> "received", result |-> NoResponse]

Requests ==
  {Request("list_docs", Undefined)}
    \cup {Request("get_doc", arg) : arg \in {StringValue(<<"b">>), StringValue(<<"a", "b">>), NotAString}}
    \cup {Request("search_docs", arg) : arg \in {StringValue(<<"a", "a", "b">>), StringValue(<<"b", "b">>)}}

(* The handler registered for the tool, on the server's docs and fuse; the
   schema of get_doc and search_docs rejects an argument that is not a string. *)
RunTool(tool, arg, d, index) ==
  CASE tool = "list_docs" -> list_docs(d)
    [] tool = "get_doc" -> IF IsString(arg) THEN get_doc(d, arg) ELSE InvalidParams(tool, arg)
    [] tool = "search_docs" ->
         IF IsString(arg) THEN search_docs(index, arg) ELSE InvalidParams(tool, arg)

InitConcurrent == InitWith(FileLists(FileIds, ConcurrentContents))

ReceiveRequest ==
  /\ pc = "serving"
  /\ Len(inflight) < MaxInFlight
  /\ \E req \in Requests : inflight' = Append(inflight, req)
  /\ UNCHANGED <<files, pc, nread, genDocs, serverCode, docs, fuse, response, probe, argv,
                 packageName, outDir, log,
                 toolName, TOOL_NAME, built>>

(* The handler keeps its argument in a variable of the module, which the request
   received last has overwritten. *)
HandleRequest_SharedArgument ==
  /\ pc = "serving"
  /\ \E i \in 1..Len(inflight) :
       /\ inflight[i].stage = "received"
       /\ inflight' =
            [inflight EXCEPT ![i].stage = "handled",
               ![i].result = RunTool(inflight[i].tool, inflight[Len(inflight)].arg, docs, fuse)]
  /\ UNCHANGED <<files, pc, nread, genDocs, serverCode, docs, fuse, response, probe, argv,
                 packageName, outDir, log,
                 toolName, TOOL_NAME, built>>

(* get_doc remembers a name it did not find: docs[name] = ''. *)
HandleRequest_StoresMiss ==
  /\ pc = "serving"
  /\ \E i \in 1..Len(inflight) :
       /\ inflight[i].stage = "received"
       /\ inflight' =
            [inflight EXCEPT ![i].stage = "handled",
               ![i].result = RunTool(inflight[i].tool, inflight[i].arg, docs, fuse)]
       /\ docs' = IF inflight'[i].result.error = "NotFound"
                  THEN ObjSet(docs, inflight[i].arg.val, <<>>) ELSE docs
  /\ UNCHANGED <<files, pc, nread, genDocs, serverCode, fuse, response, probe, argv,
                 packageName, outDir, log,
                 toolName, TOOL_NAME, built>>

(* The SDK calls the handler of one of the requests it has received. *)
HandleRequest ==
  /\ pc = "serving"
  /\ \E i \in 1..Len(inflight) :
       /\ inflight[i].stage = "received"
       /\ inflight' =
            [inflight EXCEPT ![i].stage = "handled",
               ![i].result = RunTool(inflight[i].tool, inflight[i].arg, docs, fuse)]
  /\ UNCHANGED <<files, pc, nread, genDocs, serverCode, docs, fuse, response, probe, argv,
                 packageName, outDir, log,
                 toolName, TOOL_NAME, built>>

(* The seq without its i-th element. *)
RemoveAt(seq, i) == SubSeq(seq, 1, i - 1) \o SubSeq(seq, i + 1, Len(seq))

(* The SDK sends the result of a handled request: response is the last one sent. *)
Reply ==
  /\ pc = "serving"
  /\ \E i \in 1..Len(inflight) :
       /\ inflight[i].stage = "handled"
       /\ response' = inflight[i].result
       /\ inflight' = RemoveAt(inflight, i)
  /\ UNCHANGED <<files, pc, nread, genDocs, serverCode, docs, fuse, probe, argv,
                 packageName, outDir, log, toolName,
                 TOOL_NAME, built>>

NextConcurrent ==
  \/ ReadFile
  \/ Bundle
  \/ StartServer
  \/ Connect
  \/ ReceiveRequest
  \/ HandleRequest
  \/ Reply

SpecConcurrent == InitConcurrent /\ [][NextConcurrent]_vars

(***************************************************************************)
(* Misspelt queries: one document that holds a word, searched for the word *)
(* with one character left out.                                            *)
(***************************************************************************)
MaxWordLen == 6

Words == {w \in StringsUpTo(SearchChars, MaxWordLen) : Len(w) >= minMatchCharLength}

(* The word alone, and the word between other words. *)
WordContents == Words \cup {<<"x", SP>> \o w \o <<SP, "x">> : w \in Words}

InitFuzzy == InitWith({<<[path |-> <<"x">>, content |-> c]>> : c \in WordContents})

CallSearchDocsMisspelt ==
  /\ pc = "serving"
  /\ response = NoResponse
  /\ \E w \in Words, k \in 1..MaxWordLen :
       /\ k <= Len(w)
       /\ \E d \in 1..Len(docs) : Contains(docs[d].content, w)
       /\ response' = search_docs(fuse, StringValue(RemoveAt(w, k)))
  /\ UNCHANGED <<files, pc, nread, genDocs, serverCode, docs, fuse, probe, argv,
                 packageName, outDir, log, toolName,
                 TOOL_NAME, built, inflight>>

NextFuzzy ==
  \/ ReadFile
  \/ Bundle
  \/ StartServer
  \/ Connect
  \/ CallSearchDocsMisspelt
  \/ SendResponse

SpecFuzzy == InitFuzzy /\ [][NextFuzzy]_vars

(***************************************************************************)
(* A store of three short documents, searched for words of theirs in       *)
(* several spellings.                                                      *)
(***************************************************************************)
A_MD == <<"a", ".", "m", "d">>
B_MD == <<"b", ".", "m", "d">>
C_MD == <<"c", ".", "m", "d">>

InstallTheCli ==
  <<"I", "n", "s", "t", "a", "l", "l", " ", "t", "h", "e", " ", "C", "L",
    "I", " ", "w", "i", "t", "h", " ", "n", "p", "m">>
UninstallProcedure ==
  <<"U", "n", "i", "n", "s", "t", "a", "l", "l", " ", "p", "r", "o", "c",
    "e", "d", "u", "r", "e", " ", "i", "s", " ", "m", "a", "n", "u", "a",
    "l">>
EtapeInstalle ==
  <<"É", "t", "a", "p", "e", ":", " ", "i", "n", "s", "t", "a", "l", "l",
    "é">>

ScenarioFiles ==
  {[path |-> A_MD, content |-> InstallTheCli],
   [path |-> B_MD, content |-> UninstallProcedure],
   [path |-> C_MD, content |-> EtapeInstalle]}

(* The files a glob can return, in any order. *)
RECURSIVE ListsOf(_)
ListsOf(fileSet) ==
  {<<>>} \cup UNION {{<<file>> \o rest : rest \in ListsOf(fileSet \ {file})} : file \in fileSet}

Q_install == <<"i", "n", "s", "t", "a", "l", "l">>
Q_Install == <<"I", "n", "s", "t", "a", "l", "l">>
Q_INSTALL == <<"I", "N", "S", "T", "A", "L", "L">>

ScenarioQueries ==
  {Q_install, Q_Install, Q_INSTALL,
   Q_install \o <<"é">>, Q_install \o <<"e">>, Q_INSTALL \o <<"É">>,
   <<"é", "t", "a", "p", "e">>, <<"e", "t", "a", "p", "e">>, <<"E", "T", "A", "P", "E">>,
   <<"m", "a", "n", "u", "a", "l">>, <<"M", "a", "n", "u", "a", "l">>,
   <<"n", "p", "m">>, <<"N", "P", "M">>}

InitScenario == InitWith(ListsOf(ScenarioFiles))

CallSearchDocsScenario ==
  /\ pc = "serving"
  /\ response = NoResponse
  /\ \E query \in ScenarioQueries : response' = search_docs(fuse, StringValue(query))
  /\ UNCHANGED <<files, pc, nread, genDocs, serverCode, docs, fuse, probe, argv,
                 packageName, outDir, log, toolName,
                 TOOL_NAME, built, inflight>>

NextScenario ==
  \/ ReadFile
  \/ Bundle
  \/ StartServer
  \/ Connect
  \/ CallSearchDocsScenario
  \/ SendResponse

SpecScenario == InitScenario /\ [][NextScenario]_vars

(***************************************************************************)
(* The preview construction on its own: a content of any length around the *)
(* context size, its characters told apart by their position.              *)
(***************************************************************************)
Positions(n) == [i \in 1..n |-> ToString(i)]

(* Distances within PreviewSlack of 0 and of SEARCH_CONTEXT_CHARS. *)
NearContext ==
  (0..PreviewSlack)
    \cup ((SEARCH_CONTEXT_CHARS - PreviewSlack)..(SEARCH_CONTEXT_CHARS + PreviewSlack))

InitPreview ==
  /\ files = <<>>
  /\ pc = "preview"
  /\ nread = 0
  /\ genDocs = <<>>
  /\ serverCode = <<>>
  /\ docs = <<>>
  /\ fuse = <<>>
  /\ response = NoResponse
  /\ argv = NoToolNameOption
  /\ packageName = DefaultPackageName
  /\ outDir = EmptyOutDir
  /\ log = <<>>
  /\ toolName = Undefined
  /\ TOOL_NAME = <<>>
  /\ built = 0
  /\ inflight = <<>>
  /\ \E before \in NearContext, len \in 1..(1 + PreviewSlack), after \in NearContext :
       probe = [content |-> Positions(before + len + after), matchStart |-> before,
                matchEnd |-> before + len - 1, preview |-> <<>>]

BuildPreview ==
  /\ pc = "preview"
  /\ probe.preview = <<>>
  /\ probe' = [probe EXCEPT
                 !.preview = buildPreview(probe.content, probe.matchStart, probe.matchEnd)]
  /\ UNCHANGED <<files, pc, nread, genDocs, serverCode, docs, fuse, response, argv,
                 packageName, outDir, log, toolName, TOOL_NAME, built, inflight>>

NextPreview == BuildPreview

SpecPreview == InitPreview /\ [][NextPreview]_vars

(***************************************************************************)
(* Ids supplied more than once, and ids that are decimal numbers: the read *)
(* loop over whatever list of paths glob returns.                          *)
(***************************************************************************)
MaxSupplied == 3

SuppliedIds == {<<"b">>, <<"2">>, <<"1", "0">>}
SuppliedContents == {<<"a">>, <<"b">>}

(* The lists of at most n files, a path possibly more than once. *)
RECURSIVE SuppliedLists(_)
SuppliedLists(n) ==
  IF n = 0 THEN {<<>>}
  ELSE SuppliedLists(n - 1)
         \cup {<<[path |-> id, content |-> c]>> \o rest :
                 id \in SuppliedIds, c \in SuppliedContents,
                 rest \in {l \in SuppliedLists(n - 1) : Len(l) = n - 1}}

InitSupplied == InitWith(SuppliedLists(MaxSupplied))

CallGetDocSupplied ==
  /\ pc = "serving"
  /\ response = NoResponse
  /\ \E id \in SuppliedIds : response' = get_doc(docs, StringValue(id))
  /\ UNCHANGED <<files, pc, nread, genDocs, serverCode, docs, fuse, probe, argv,
                 packageName, outDir, log, toolName,
                 TOOL_NAME, built, inflight>>

NextSupplied ==
  \/ ReadFile
  \/ Bundle
  \/ StartServer
  \/ Connect
  \/ CallListDocs
  \/ CallGetDocSupplied
  \/ SendResponse

SpecSupplied == InitSupplied /\ [][NextSupplied]_vars

(***************************************************************************)
(* Listing documents whose length is around LIST_DOCS_PREVIEW_CHARS.       *)
(***************************************************************************)
NearPreview ==
  (0..PreviewSlack)
    \cup ((LIST_DOCS_PREVIEW_CHARS - PreviewSlack)..(LIST_DOCS_PREVIEW_CHARS + PreviewSlack))

InitListing == InitWith(FileLists(FileIds, {Positions(n) : n \in NearPreview}))

NextListing ==
  \/ ReadFile
  \/ Bundle
  \/ StartServer
  \/ Connect
  \/ CallListDocs
  \/ SendResponse

SpecListing == InitListing /\ [][NextListing]_vars

(***************************************************************************)
(* The command line: program.parse(process.argv) and the action.           *)
(***************************************************************************)
ToolNames == {<<"T">>, <<"a", "b">>}

CliContents == {<<"a">>, <<"b">>}

InitCli ==
  /\ files \in FileLists(FileIds, CliContents)
  /\ pc = "cli"
  /\ nread = 0
  /\ genDocs = <<>>
  /\ serverCode = <<>>
  /\ docs = <<>>
  /\ fuse = <<>>
  /\ response = NoResponse
  /\ probe = NoProbe
  /\ argv \in {NoToolNameOption} \cup {[given |-> TRUE, name |-> n] : n \in ToolNames}
  /\ packageName = DefaultPackageName
  /\ outDir = EmptyOutDir
  /\ log = <<>>
  /\ toolName = Undefined
  /\ TOOL_NAME = <<>>
  /\ built = 0
  /\ inflight = <<>>

(* The options the program declares are -d/--docs, -p/--packageName and
   -o/--outDir.  An option the program does not declare either ends the process
   (commander's unknown-option error) or is passed over, as the parser decides;
   the action calls generateServer(options.docs, options.packageName,
   options.outDir), with no fourth argument. *)
ParseArgs ==
  /\ pc = "cli"
  /\ pc' \in (IF argv.given THEN {"rejected", "read"} ELSE {"read"})
  /\ toolName' = Undefined
  /\ UNCHANGED <<files, nread, genDocs, serverCode, docs, fuse, response, probe, argv,
                 packageName, outDir, log,
                 TOOL_NAME, built, inflight>>

(* The descriptions the tools are registered with. *)
Description(tool, name) ==
  CASE tool = "list_docs" ->
         IF name # <<>>
         THEN <<"Lists available documents for ">> \o name \o <<" with previews.">>
         ELSE <<"Lists available documents with previews.">>
    [] tool = "get_doc" ->
         IF name # <<>>
         THEN <<"Retrieves the full content of a specific document for ">> \o name
                \o <<" by its relative path.">>
         ELSE <<"Retrieves the full content of a specific document by its relative path.">>
    [] tool = "search_docs" ->
         IF name # <<>>
         THEN <<"Searches all ">> \o name
                \o <<" documents for a given query string using fuzzy matching.">>
         ELSE <<"Searches all documents for a given query string using fuzzy matching.">>

Tools == {"list_docs", "get_doc", "search_docs"}

(* tools/list: the client reads the description of a tool. *)
ListTools ==
  /\ pc = "serving"
  /\ response = NoResponse
  /\ \E tool \in Tools :
       response' = [tool |-> "tools/list", arg |-> StringValue(<<tool>>), kind |-> "ok",
                    error |-> "", type |-> "string", text |-> Description(tool, TOOL_NAME)]
  /\ UNCHANGED <<files, pc, nread, genDocs, serverCode, docs, fuse, probe, argv,
                 packageName, outDir, log, toolName,
                 TOOL_NAME, built, inflight>>

NextCli ==
  \/ ParseArgs
  \/ ReadFile
  \/ Bundle
  \/ StartServer
  \/ Connect
  \/ ListTools
  \/ CallListDocs
  \/ CallGetDoc
  \/ SendResponse

SpecCli == InitCli /\ [][NextCli]_vars

(***************************************************************************)
(* Reading a response                                                      *)
(***************************************************************************)
(* The first place from `from` on where the text holds the piece, or 0. *)
IndexOf(text, piece, from) ==
  IF \E i \in from..Len(text) : text[i] = piece
  THEN CHOOSE i \in from..Len(text) :
         text[i] = piece /\ \A j \in from..(i - 1) : text[j] # piece
  ELSE 0

(* What stands between each `open` piece and the next `close` piece. *)
RECURSIVE Labels(_, _, _)
Labels(text, open, close) ==
  LET i == IndexOf(text, open, 1)
      j == IF i = 0 THEN 0 ELSE IndexOf(text, close, i + 1)
  IN IF i = 0 \/ j = 0 THEN <<>>
     ELSE <<SubSeq(text, i + 1, j - 1)>> \o Labels(SubSeq(text, j + 1, Len(text)), open, close)

(* The ids of the entries of a list_docs text. *)
ListedIds(text) == Labels(text, "--- ", " ---\n")

(* The files of a search_docs text, in the order they are listed. *)
ListedFiles(text) == Labels(text, "File: ", "\n")

Inserted(id) == \E i \in 1..Len(files) : files[i].path = id

(***************************************************************************)
(* Claims                                                                  *)
(***************************************************************************)

(* C1: for every document the generator embedded with id I and content C, in a
   server that was generated and started, get_doc with name = I returns exactly C. *)
C1_RoundTrip ==
  \A i \in 1..Len(files) :
    (pc = "serving" /\ response.tool = "get_doc"
       /\ response.arg = StringValue(files[i].path))
    => (response.kind = "ok" /\ response.type = "string"
          /\ response.text = files[i].content)

(* C2: for every string id that was never inserted, get_doc signals a not-found
   error whose message names the id and points to list_docs, and returns no
   success response. *)
C2_NotFoundContract ==
  (response.tool = "get_doc" /\ IsString(response.arg) /\ ~Inserted(response.arg.val))
  => (response.kind = "error" /\ response.error = "NotFound"
        /\ response.text = NotFoundMessage(response.arg.val))

(* C3: get_doc signals the invalid-argument error, and not the not-found error,
   whenever name is missing, is the empty string, or is not a string. *)
C3_InvalidName ==
  (response.tool = "get_doc"
     /\ (~IsString(response.arg) \/ response.arg.val = <<>>))
  => (response.kind = "error" /\ response.error = "InvalidParams")

(* C4: search_docs signals the invalid-argument error whenever query is missing,
   is the empty string, or is not a string; an empty query yields no success
   response. *)
C4_InvalidQuery ==
  (response.tool = "search_docs"
     /\ (~IsString(response.arg) \/ response.arg.val = <<>>))
  => (response.kind = "error" /\ response.error = "InvalidParams")

(* C5: the list_docs output holds exactly one entry for every id of the store
   and no other entry: as many entries as the store has documents. *)
C5_ListingTotal ==
  response.tool = "list_docs"
  => LET ids == ListedIds(response.text) IN
     /\ Len(ids) = Len(docs)
     /\ \A d \in 1..Len(docs) :
          Cardinality({k \in 1..Len(ids) : ids[k] = docs[d].name}) = 1
     /\ \A k \in 1..Len(ids) : \E d \in 1..Len(docs) : ids[k] = docs[d].name
     /\ \A i \in 1..Len(files) :
          Cardinality({k \in 1..Len(ids) : ids[k] = files[i].path}) = 1

C5_Witness ==
  /\ response.tool = "list_docs"
  /\ Len(docs) = 2
  /\ Len(ListedIds(response.text)) = 2

(* C6: a server generated from no files answers list_docs with the sentinel text
   and every search_docs query with the no-matches message, both as successes;
   list_docs returns the sentinel only when the store is empty. *)
C6_EmptyCorpus ==
  /\ (files = <<>> /\ response.tool = "list_docs")
     => (response.kind = "ok" /\ response.type = "string"
           /\ response.text = NO_DOCUMENTS)
  /\ (files = <<>> /\ response.tool = "search_docs" /\ IsString(response.arg))
     => (response.kind = "ok" /\ response.type = "string"
           /\ response.text = NoMatchesMessage(response.arg.val))
  /\ (response.tool = "list_docs" /\ response.text = NO_DOCUMENTS)
     => (docs = <<>> /\ files = <<>>)

C6_Witness ==
  /\ files = <<>>
  /\ pc = "serving"
  /\ response.tool = "search_docs"
  /\ response.arg = StringValue(<<"a", "a", "b">>)
  /\ response.kind = "ok"

(* C7: when the total number of matches is zero, search_docs returns the
   no-matches message; otherwise its header states the total and echoes the
   query: a header never reports a total of 0. *)
C7_HeaderTotal ==
  (response.tool = "search_docs" /\ response.kind = "ok")
  => LET query == response.arg.val
         total == totalMatches(formattedResults(FuseSearch(fuse, query)))
     IN IF total = 0 THEN response.text = NoMatchesMessage(query)
        ELSE /\ SubSeq(response.text, 1, 3 + Len(query))
                  = <<"Found ", ToString(total), " matches for \"">> \o query
             /\ response.text[2] # "0"

(* C8: for a match span (s, e), e exclusive, in a content of length L, with
   C = SEARCH_CONTEXT_CHARS: the preview holds the min(s, C) characters before s
   and the min(L - e, C) characters after e, a leading "..." exactly when s > C
   and a trailing "..." exactly when L - e > C. *)
C8_ContextBounds ==
  probe.preview # <<>>
  => LET text == probe.preview
         s == probe.matchStart
         e == probe.matchEnd + 1
         L == Len(probe.content)
         hasPrefix == text[1] = "..."
         hasSuffix == text[Len(text)] = "..."
         open == IndexOf(text, "**", 1)
         close == IndexOf(text, "**", open + 1)
         pre == SubSeq(text, IF hasPrefix THEN 2 ELSE 1, open - 1)
         post == SubSeq(text, close + 1, Len(text) - (IF hasSuffix THEN 1 ELSE 0))
     IN /\ open > 0 /\ close > open
        /\ Len(pre) = Min(s, SEARCH_CONTEXT_CHARS)
        /\ Len(post) = Min(L - e, SEARCH_CONTEXT_CHARS)
        /\ pre = SubSeq(probe.content, s - Len(pre) + 1, s)
        /\ post = SubSeq(probe.content, e + 1, e + Len(post))
        /\ (hasPrefix <=> s > SEARCH_CONTEXT_CHARS)
        /\ (hasSuffix <=> L - e > SEARCH_CONTEXT_CHARS)

C8_Witness ==
  /\ probe.preview # <<>>
  /\ probe.matchStart > SEARCH_CONTEXT_CHARS
  /\ Len(probe.content) - (probe.matchEnd + 1) > SEARCH_CONTEXT_CHARS
  /\ probe.preview[1] = "..."
  /\ probe.preview[Len(probe.preview)] = "..."

(* The index record with this name (names are the keys of docs, so there is one). *)
RecordOf(name) == CHOOSE d \in 1..Len(fuse) : fuse[d].name = name

MatchesOfRecord(d, query) ==
  FindMatches("content", ContentWeight, fuse[d].content, query)
    \o FindMatches("name", NameWeight, fuse[d].name, query)

(* The combined score of a record that matched, to the power
   ContentWeight + NameWeight, and the threshold to the same power. *)
CombinedScore(d, query) == ComputeScore(MatchesOfRecord(d, query))
Threshold == [eps |-> 0, milli |-> 0, num |-> ThresholdNum, den |-> ThresholdDen]
ScoreLeq(a, b) == ScoreLess(a, b) \/ ScoreEq(a, b)

(* The files are listed by non-decreasing combined score, and two files of equal
   score in the order of the store. *)
ListedInRankOrder(listed, query) ==
  \A k \in 1..(Len(listed) - 1) :
    LET a == RecordOf(listed[k])
        b == RecordOf(listed[k + 1])
    IN /\ ScoreLeq(CombinedScore(a, query), CombinedScore(b, query))
       /\ ScoreEq(CombinedScore(a, query), CombinedScore(b, query)) => a < b

IsListed(listed, name) == \E k \in 1..Len(listed) : listed[k] = name

(* C9, as stated: search_docs lists exactly the documents whose combined score
   is within the threshold 0.4, by non-decreasing score, equal scores in store
   order. *)
C9_CombinedWithinThreshold ==
  (response.tool = "search_docs" /\ response.kind = "ok")
  => LET query == response.arg.val
         listed == ListedFiles(response.text)
     IN /\ \A d \in 1..Len(fuse) :
             IsListed(listed, fuse[d].name)
             <=> (MatchesOfRecord(d, query) # <<>>
                    /\ ScoreLeq(CombinedScore(d, query),
                                ScorePow(Threshold, ContentWeight + NameWeight)))
        /\ ListedInRankOrder(listed, query)

(* C9, amended: search_docs lists, each once, exactly the documents with a field
   (content or name) whose own match score is within the threshold 0.4, by
   non-decreasing combined score, equal scores in store order. *)
C9_Ranking ==
  (response.tool = "search_docs" /\ response.kind = "ok")
  => LET query == response.arg.val
         listed == ListedFiles(response.text)
     IN /\ \A d \in 1..Len(fuse) :
             Cardinality({k \in 1..Len(listed) : listed[k] = fuse[d].name})
               = IF \E m \in 1..Len(MatchesOfRecord(d, query)) :
                      ScoreLeq(MatchesOfRecord(d, query)[m].score, Threshold)
                 THEN 1 ELSE 0
        /\ \A k \in 1..Len(listed) : \E d \in 1..Len(fuse) : listed[k] = fuse[d].name
        /\ ListedInRankOrder(listed, query)

(* Two files listed against the order of the store, the first of them with a
   combined score above the threshold. *)
C9_Witness ==
  /\ response.tool = "search_docs"
  /\ response.kind = "ok"
  /\ Len(fuse) = 2
  /\ ListedFiles(response.text) = <<fuse[2].name, fuse[1].name>>
  /\ ~ScoreLeq(CombinedScore(2, response.arg.val),
               ScorePow(Threshold, ContentWeight + NameWeight))

(* The documents the generated server holds, from the files alone. *)
RECURSIVE ReadAll(_, _)
ReadAll(obj, list) ==
  IF list = <<>> THEN obj
  ELSE ReadAll(ObjSet(obj, Head(list).path, Head(list).content), Tail(list))

DocsOf(list) == EvalDocs(docsEntries(ReadAll(<<>>, list)))

(* C10: for a fixed document set and a fixed query, every search_docs call
   returns the same response, whatever calls ran before it: the response is the
   one the handler gives on the index of the document set as generated. *)
C10_Determinism ==
  (response.tool = "search_docs" /\ IsString(response.arg))
  => response = search_docs(NewFuse(DocsOf(files)), response.arg)

C10_Witness ==
  /\ response.tool = "search_docs"
  /\ response.kind = "ok"
  /\ Len(ListedFiles(response.text)) = 2

(* C11: once the server is constructed, no list_docs, get_doc or search_docs
   call, whether it succeeds or ends in an error, adds, removes or changes an
   entry of the id-to-content mapping or of the indexed documents. *)
C11_ReadOnlyStore ==
  [][(pc = "initialized" \/ pc = "serving") => (docs' = docs /\ fuse' = fuse)]_vars

(* A call has ended in an error and another is outstanding, on a store that
   holds documents. *)
C11_Witness ==
  /\ pc = "serving"
  /\ docs # <<>>
  /\ response.kind = "error"
  /\ response.error = "NotFound"
  /\ Len(inflight) = MaxInFlight

(* C12: whatever the interleaving of the outstanding requests, each request gets
   the response it would get as the only request on the same store. *)
C12_ConcurrentQueries ==
  /\ \A i \in 1..Len(inflight) :
       inflight[i].stage = "handled"
       => inflight[i].result
            = RunTool(inflight[i].tool, inflight[i].arg, DocsOf(files), NewFuse(DocsOf(files)))
  /\ response # NoResponse
     => response = RunTool(response.tool, response.arg, DocsOf(files), NewFuse(DocsOf(files)))

(* Two requests of different tools are outstanding, the one received last
   handled first. *)
C12_Witness ==
  /\ Len(inflight) = 2
  /\ Len(docs) = 2
  /\ inflight[1].tool = "get_doc"
  /\ inflight[1].stage = "received"
  /\ inflight[2].tool = "search_docs"
  /\ inflight[2].stage = "handled"
  /\ inflight[2].result.kind = "ok"

(* C13: the index is built once, over the complete document set, before the
   server connects; no request is handled before the index exists, and the
   index is not rebuilt afterwards. *)
C13_IndexBuiltOnce ==
  /\ built <= 1
  /\ pc \in {"initialized", "serving"}
     => (built = 1 /\ fuse = NewFuse(docs)
           /\ \A i \in 1..Len(files) : \E d \in 1..Len(fuse) : fuse[d].name = files[i].path)
  /\ pc \notin {"initialized", "serving"} => (built = 0 /\ inflight = <<>>)
  /\ (inflight # <<>> \/ response # NoResponse) => (pc = "serving" /\ built = 1)

C13_Witness ==
  /\ pc = "serving"
  /\ built = 1
  /\ Len(fuse) = 2
  /\ response.tool = "search_docs"
  /\ inflight # <<>>

(* The query is the word with one of its characters left out. *)
IsOneDeletionOf(query, w) == \E k \in 1..Len(w) : RemoveAt(w, k) = query

(* C14, as stated: for every document whose content holds a word w, the query w
   with one character deleted returns that document. *)
C14_OneDeletion ==
  (response.tool = "search_docs" /\ response.kind = "ok")
  => \A d \in 1..Len(fuse), w \in Words :
       (Contains(fuse[d].content, w) /\ IsOneDeletionOf(response.arg.val, w))
       => IsListed(ListedFiles(response.text), fuse[d].name)

(* C14, amended: the same for the words of at least 2 * minMatchCharLength
   characters. *)
C14_FuzzyTolerance ==
  (response.tool = "search_docs" /\ response.kind = "ok")
  => \A d \in 1..Len(fuse), w \in Words :
       (Len(w) >= 2 * minMatchCharLength
          /\ Contains(fuse[d].content, w) /\ IsOneDeletionOf(response.arg.val, w))
       => IsListed(ListedFiles(response.text), fuse[d].name)

(* The document is returned for a misspelling that its content does not hold. *)
C14_Witness ==
  /\ response.tool = "search_docs"
  /\ response.kind = "ok"
  /\ Len(fuse) = 1
  /\ Len(response.arg.val) + 1 = 2 * minMatchCharLength
  /\ ~Contains(fuse[1].content, response.arg.val)
  /\ \E w \in Words :
       /\ Len(w) = 2 * minMatchCharLength
       /\ Contains(fuse[1].content, w)
       /\ IsOneDeletionOf(response.arg.val, w)
  /\ ListedFiles(response.text) = <<fuse[1].name>>

(* The store holds a.md and b.md and nothing else, and 'install' was searched. *)
InstallSearched ==
  /\ response.tool = "search_docs"
  /\ response.arg = StringValue(Q_install)
  /\ Len(docs) = 2
  /\ {docs[1].name, docs[2].name} = {A_MD, B_MD}

(* C15, as stated: with the store {a.md: 'Install the CLI with npm', b.md:
   'Uninstall procedure is manual'}, search_docs('install') returns both files,
   a.md first. *)
C15_InstallFirst ==
  InstallSearched => ListedFiles(response.text) = <<A_MD, B_MD>>

(* C15, amended: search_docs('install') returns both files with the same
   combined score, in the order of the store. *)
C15_Scenario ==
  InstallSearched
  => /\ ListedFiles(response.text) = <<docs[1].name, docs[2].name>>
     /\ ScoreEq(CombinedScore(RecordOf(A_MD), Q_install),
                CombinedScore(RecordOf(B_MD), Q_install))

C15_Witness ==
  /\ InstallSearched
  /\ docs[1].name = A_MD
  /\ docs[2].content = UninstallProcedure
  /\ ListedFiles(response.text) = <<A_MD, B_MD>>

(* The query in lower case and without diacritics. *)
Fold(query) == [i \in 1..Len(query) |-> StripDiacriticsChar(ToLowerChar(query[i]))]

(* C16: two queries that differ only in letter case or in diacritics return the
   same documents in the same order: every query returns what its lower-case
   form without diacritics returns. *)
C16_CaseAndDiacritics ==
  (response.tool = "search_docs" /\ response.kind = "ok")
  => ListedFiles(response.text)
       = ListedFiles(search_docs(fuse, StringValue(Fold(response.arg.val))).text)

(* An upper-case query with a diacritic finds the three documents, the one that
   holds the word itself first. *)
C16_Witness ==
  /\ response.tool = "search_docs"
  /\ response.arg = StringValue(Q_INSTALL \o <<"É">>)
  /\ Len(docs) = 3
  /\ docs[3].name = C_MD
  /\ Len(ListedFiles(response.text)) = 3
  /\ ListedFiles(response.text)[1] = C_MD

(* The content supplied last for the id. *)
LastContent(id) ==
  files[CHOOSE i \in 1..Len(files) :
          files[i].path = id /\ \A j \in (i + 1)..Len(files) : files[j].path # id].content

(* C17: when an id is supplied more than once while the mapping is built,
   construction does not fail, the store holds exactly one entry for the id, and
   the entry's content is the content supplied last. *)
C17_LastWriteWins ==
  /\ pc # "failed"
  /\ pc \in {"initialized", "serving"}
     => \A i \in 1..Len(files) :
          /\ Cardinality({d \in 1..Len(docs) : docs[d].name = files[i].path}) = 1
          /\ docs[OwnIndex(docs, files[i].path)].content = LastContent(files[i].path)
  /\ (response.tool = "get_doc" /\ Inserted(response.arg.val))
     => (response.kind = "ok" /\ response.text = LastContent(response.arg.val))

(* An id supplied three times, with a content in between that is not the last. *)
C17_Witness ==
  /\ pc = "serving"
  /\ Len(files) = 3
  /\ files[1].path = files[3].path
  /\ files[2].path = files[3].path
  /\ files[2].content # files[3].content
  /\ Len(docs) = 1
  /\ response.tool = "get_doc"
  /\ response.text = files[3].content

(* The ids in the order they were first supplied. *)
RECURSIVE FirstInsertionOrder(_)
FirstInsertionOrder(list) ==
  IF list = <<>> THEN <<>>
  ELSE LET before == FirstInsertionOrder(SubSeq(list, 1, Len(list) - 1))
           id == list[Len(list)].path
       IN IF \E k \in 1..Len(before) : before[k] = id THEN before ELSE Append(before, id)

(* C18: list_docs emits its entries in the order in which the ids were first
   inserted, also for ids that are decimal numbers and ids supplied twice. *)
C18_ListingOrder ==
  response.tool = "list_docs" => ListedIds(response.text) = FirstInsertionOrder(files)

(* C19: the list_docs entry of a document is '--- {id} ---', a newline, the
   first LIST_DOCS_PREVIEW_CHARS characters of the content (all of it when it is
   shorter), then '...'; the entries are separated by one blank line. *)
C19_ListingPreview ==
  (response.tool = "list_docs" /\ docs # <<>>)
  => response.text
       = Join([d \in 1..Len(docs) |->
                 <<"--- ">> \o docs[d].name \o <<" ---\n">>
                   \o SubSeq(docs[d].content, 1,
                             Min(LIST_DOCS_PREVIEW_CHARS, Len(docs[d].content)))
                   \o <<"...">>],
              <<"\n\n">>)

(* One document shorter than the preview and one longer, listed. *)
C19_Witness ==
  /\ response.tool = "list_docs"
  /\ Len(docs) = 2
  /\ Len(docs[1].content) > LIST_DOCS_PREVIEW_CHARS
  /\ Len(docs[2].content) \in 1..(LIST_DOCS_PREVIEW_CHARS - 1)
  /\ Len(response.text) > LIST_DOCS_PREVIEW_CHARS

(* C20: the command line accepts -t/--toolName <name>, and when it is given the
   descriptions of the three tools of the generated server mention the name. *)
C20_ToolNameOption ==
  argv.given
  => /\ pc # "rejected"
     /\ response.tool = "tools/list" => Contains(response.text, argv.name)

(***************************************************************************)
(* generateServer called with labels of every kind.                        *)
(***************************************************************************)
(* A label that closes the literal and goes on with a statement. *)
LabelWithStatement ==
  <<SQ, ";", DOCS_LB, SQ, "b", SQ, "]", "=", SQ, "a", SQ, ";", SQ>>

PackageNames == {DefaultPackageName, <<"A">>, <<"A", SQ>>, <<"A", BSL>>, LabelWithStatement}
SubjectNames == {Undefined, StringValue(<<"T">>), StringValue(<<"T", SQ>>)}

LabelContents == {<<"a">>, <<"b">>}

InitLabels ==
  /\ files \in FileLists(FileIds, LabelContents)
  /\ pc = "read"
  /\ nread = 0
  /\ genDocs = <<>>
  /\ serverCode = <<>>
  /\ docs = <<>>
  /\ fuse = <<>>
  /\ response = NoResponse
  /\ probe = NoProbe
  /\ argv = NoToolNameOption
  /\ packageName \in PackageNames
  /\ outDir = EmptyOutDir
  /\ log = <<>>
  /\ toolName \in SubjectNames
  /\ TOOL_NAME = <<>>
  /\ built = 0
  /\ inflight = <<>>

SpecLabels == InitLabels /\ [][Next]_vars

(* The documents of the server generated from the same mapping with the default
   labels.  A server is a function of the mapping and the labels, so two servers
   answer alike exactly when each answers like this one. *)
ReferenceDocs == EvalModule(serverCode, DefaultPackageName, Undefined).docs

(* C21: for servers generated from the same document mapping with different
   packageName and toolName, every list_docs, get_doc and search_docs call
   returns the same response or the same error. *)
C21_LabelsDoNotMatter ==
  (pc = "serving" /\ response.tool \in Tools)
  => response = RunTool(response.tool, response.arg, ReferenceDocs, NewFuse(ReferenceDocs))

(***************************************************************************)
(* Searching contents that hold letters with diacritics, precomposed and   *)
(* decomposed.                                                             *)
(***************************************************************************)
HighlightWords ==
  {<<"a", "b", "b">>, <<"a", "é", "b">>, <<"a", "e", COMBINING_ACUTE, "b">>, <<"A", "É", "b">>}
HighlightPrefixes == {<<>>, <<"é", SP>>, <<"e", COMBINING_ACUTE, SP>>, <<"b", SP>>}
HighlightSuffixes == {<<>>, <<SP, "a">>}

HighlightContents ==
  {p \o w \o q : p \in HighlightPrefixes, w \in HighlightWords, q \in HighlightSuffixes}

HighlightQueries == {<<"a", "b", "b">>, <<"a", "e", "b">>, <<"a", "é", "b">>}

InitHighlight == InitWith({<<[path |-> <<"x">>, content |-> c]>> : c \in HighlightContents})

CallSearchDocsHighlight ==
  /\ pc = "serving"
  /\ response = NoResponse
  /\ \E q \in HighlightQueries : response' = search_docs(fuse, StringValue(q))
  /\ UNCHANGED <<files, pc, nread, genDocs, serverCode, docs, fuse, probe, argv,
                 packageName, outDir, log, toolName, TOOL_NAME, built, inflight>>

NextHighlight ==
  \/ ReadFile
  \/ Bundle
  \/ StartServer
  \/ Connect
  \/ CallSearchDocsHighlight
  \/ SendResponse

SpecHighlight == InitHighlight /\ [][NextHighlight]_vars

(* The text of a preview between its two markers. *)
Highlighted(preview) ==
  LET marks == {i \in 1..Len(preview) : preview[i] = "**"}
      first == CHOOSE i \in marks : \A j \in marks : i <= j
      last == CHOOSE i \in marks : \A j \in marks : j <= i
  IN SubSeq(preview, first + 1, last - 1)

(* The preview without the markers and the ellipsis markers. *)
Unmarked(preview) == SelectSeq(preview, LAMBDA c : c \notin {"**", "..."})

(* The content matches of the results of the query, each with its previews. *)
ContentMatches(index, query) ==
  LET results == FuseSearch(index, query)
      OfResult(r) ==
        {[content |-> results[r].item.content,
          indices |-> results[r].matches[m].indices,
          previews |-> previewsOf(results[r])] :
           m \in {k \in 1..Len(results[r].matches) : results[r].matches[k].key = "content"}}
  IN UNION {OfResult(r) : r \in 1..Len(results)}

(* C22: for every content match span the index reports, the text between the
   '**' markers is the content's characters that the span matched (the
   characters that, as the matcher reads them, are the span of the text it
   searched), and the preview without its markers is one contiguous piece of the
   original content; also for contents with characters the matcher normalises. *)
C22_HighlightIsTheMatch ==
  (response.tool = "search_docs" /\ response.kind = "ok")
  => \A cm \in ContentMatches(fuse, response.arg.val) :
       \A k \in 1..Len(cm.indices) :
         /\ Contains(response.text, cm.previews[k])
         /\ Contains(cm.content, Unmarked(cm.previews[k]))
         /\ Normalize(Highlighted(cm.previews[k]))
              = SubSeq(Normalize(cm.content), cm.indices[k][1] + 1, cm.indices[k][2] + 1)

(* C23: for every id and content over backslash, backtick, '$', '{', single
   quote, CR and LF, the property the generator emits (the id between single
   quotes, the content in a template literal, both through escapeTemplateLiteral)
   is accepted as written, without an early end or an interpolation, and
   evaluates to the original id and content. *)
C23_EmbeddingRoundTrip ==
  (nread = Len(files) /\ serverCode # <<>>)
  => /\ Bundles(serverCode)
     /\ EvalDocs(serverCode) = genDocs

(***************************************************************************)
(* generateServer after the read loop, step by step: the temporary file,   *)
(* the bundle, package.json, the finally block.  A file system operation   *)
(* or the bundler fails or not, as the environment decides.                *)
(***************************************************************************)
CLEANUP_WARNING == "Could not delete temporary file"
SKIP_WARNING == "Skipping file"
SUCCESS_MESSAGE == "MCP server successfully generated"
CLI_ERROR == "Error generating MCP server:"

GenerateContents == {<<"a">>, <<BQ>>}

InitGenerate == InitWith(FileLists(FileIds \cup {<<"a", SQ>>}, GenerateContents))

(* fs.mkdirSync(outDir, { recursive: true }); fs.writeFileSync(tempFilePath,
   serverCode): outside the try block, an error here rejects at once. *)
WriteTempFile ==
  /\ pc = "read"
  /\ nread = Len(files)
  /\ \E ok \in BOOLEAN :
       IF ok
       THEN /\ serverCode' = docsEntries(genDocs)
            /\ outDir' = [outDir EXCEPT !.tempFile = "present"]
            /\ pc' = "try"
       ELSE /\ pc' = "failed"
            /\ UNCHANGED <<serverCode, outDir>>
  /\ UNCHANGED <<files, nread, genDocs, docs, fuse, response, probe, argv, packageName,
                 log, toolName, TOOL_NAME, built, inflight>>

(* try { await build({...}) ... } catch (bundleError) { console.error; throw } *)
Build ==
  /\ pc = "try"
  /\ \E ok \in BOOLEAN :
       IF ok /\ BundlesWith(serverCode, packageName, toolName)
       THEN /\ outDir' = [outDir EXCEPT !.indexJs = TRUE]
            /\ pc' = "built"
            /\ log' = log
       ELSE /\ log' = Append(log, BUNDLING_FAILED)
            /\ pc' = "finallyThrow"
            /\ outDir' = outDir
  /\ UNCHANGED <<files, nread, genDocs, serverCode, docs, fuse, response, probe, argv,
                 packageName, toolName, TOOL_NAME, built, inflight>>

(* fs.writeFileSync(packageJsonPath, ...) inside the same try block: an error is
   caught by the same catch. *)
WritePackageJson ==
  /\ pc = "built"
  /\ \E ok \in BOOLEAN :
       IF ok
       THEN /\ outDir' = [outDir EXCEPT !.packageJson = TRUE]
            /\ pc' = "finallyOk"
            /\ log' = log
       ELSE /\ log' = Append(log, BUNDLING_FAILED)
            /\ pc' = "finallyThrow"
            /\ outDir' = outDir
  /\ UNCHANGED <<files, nread, genDocs, serverCode, docs, fuse, response, probe, argv,
                 packageName, toolName, TOOL_NAME, built, inflight>>

(* The finally block lets the error of unlinkSync out. *)
Cleanup_Rethrows ==
  /\ pc = "finallyOk" \/ pc = "finallyThrow"
  /\ \E ok \in BOOLEAN :
       IF ok
       THEN /\ outDir' = [outDir EXCEPT !.unlinkTried = TRUE, !.tempFile = "deleted"]
            /\ log' = log
            /\ pc' = IF pc = "finallyOk" THEN "generated" ELSE "failed"
       ELSE /\ outDir' = [outDir EXCEPT !.unlinkTried = TRUE]
            /\ log' = log
            /\ pc' = "failed"
  /\ UNCHANGED <<files, nread, genDocs, serverCode, docs, fuse, response, probe, argv,
                 packageName, toolName, TOOL_NAME, built, inflight>>

(* finally { try { fs.unlinkSync(tempFilePath) } catch (cleanupError) {
   console.warn(...) } }, then the function returns or the error goes on. *)
Cleanup ==
  /\ pc = "finallyOk" \/ pc = "finallyThrow"
  /\ \E ok \in BOOLEAN :
       IF ok
       THEN /\ outDir' = [outDir EXCEPT !.unlinkTried = TRUE, !.tempFile = "deleted"]
            /\ log' = log
       ELSE /\ outDir' = [outDir EXCEPT !.unlinkTried = TRUE]
            /\ log' = Append(log, CLEANUP_WARNING)
  /\ pc' = IF pc = "finallyOk" THEN "generated" ELSE "failed"
  /\ UNCHANGED <<files, nread, genDocs, serverCode, docs, fuse, response, probe, argv,
                 packageName, toolName, TOOL_NAME, built, inflight>>

NextGenerate ==
  \/ ReadFile
  \/ WriteTempFile
  \/ Build
  \/ WritePackageJson
  \/ Cleanup
  \/ StartServer
  \/ Connect
  \/ CallListDocs
  \/ SendResponse

SpecGenerate == InitGenerate /\ [][NextGenerate]_vars

(* C24: once the temporary file has been written, generateServer does not
   return or rethrow before it has tried to delete the file, whether the
   bundling succeeded or failed; package.json is written only after the bundle;
   and a generation that wrote both outputs does not fail because the temporary
   file could not be deleted. *)
C24_TempFileCleanup ==
  /\ (outDir.tempFile # "absent" /\ pc \notin {"read", "try", "built", "finallyOk", "finallyThrow"})
       => outDir.unlinkTried
  /\ outDir.packageJson => outDir.indexJs
  /\ (outDir.indexJs /\ outDir.packageJson) => pc # "failed"

(* The generation succeeded although the temporary file could not be deleted. *)
C24_Witness ==
  /\ pc = "generated"
  /\ outDir.unlinkTried
  /\ outDir.tempFile = "present"
  /\ outDir.packageJson
  /\ log = <<CLEANUP_WARNING>>

(***************************************************************************)
(* The command line from program.parse to the end of the action, a file    *)
(* being readable or not.                                                  *)
(***************************************************************************)
InitCliRun ==
  /\ files \in FileLists(FileIds \cup {<<"a", SQ>>}, {<<"a">>})
  /\ pc = "cli"
  /\ nread = 0
  /\ genDocs = <<>>
  /\ serverCode = <<>>
  /\ docs = <<>>
  /\ fuse = <<>>
  /\ response = NoResponse
  /\ probe = NoProbe
  /\ argv = NoToolNameOption
  /\ packageName = DefaultPackageName
  /\ outDir = EmptyOutDir
  /\ log = <<>>
  /\ toolName = Undefined
  /\ TOOL_NAME = <<>>
  /\ built = 0
  /\ inflight = <<>>

(* A read error ends generateServer. *)
SkipFile_Rejects ==
  /\ pc = "read"
  /\ nread < Len(files)
  /\ pc' = "failed"
  /\ UNCHANGED <<files, nread, genDocs, serverCode, docs, fuse, response, probe, argv,
                 packageName, outDir, log, toolName, TOOL_NAME, built, inflight>>

(* The read loop when fs.readFileSync throws: catch (readError) { console.warn },
   and the loop goes on with the next file. *)
SkipFile ==
  /\ pc = "read"
  /\ nread < Len(files)
  /\ nread' = nread + 1
  /\ log' = Append(log, SKIP_WARNING)
  /\ UNCHANGED <<files, pc, genDocs, serverCode, docs, fuse, response, probe, argv,
                 packageName, outDir, toolName, TOOL_NAME, built, inflight>>

(* The action after await generateServer(...): the success lines, or the catch
   block with console.error and process.exit(1). *)
CliReport ==
  /\ pc = "generated" \/ pc = "failed"
  /\ log' = Append(log, IF pc = "generated" THEN SUCCESS_MESSAGE ELSE CLI_ERROR)
  /\ pc' = IF pc = "generated" THEN "succeeded" ELSE "exit1"
  /\ UNCHANGED <<files, nread, genDocs, serverCode, docs, fuse, response, probe, argv,
                 packageName, outDir, toolName, TOOL_NAME, built, inflight>>

NextCliRun ==
  \/ ParseArgs
  \/ ReadFile
  \/ SkipFile
  \/ WriteTempFile
  \/ Build
  \/ WritePackageJson
  \/ Cleanup
  \/ CliReport

SpecCliRun == InitCliRun /\ [][NextCliRun]_vars

Printed(line) == \E i \in 1..Len(log) : log[i] = line

(* C25: when generateServer rejects, the command line prints the error, exits
   with status 1 and does not print the success message; a file that cannot be
   read is skipped with a warning and does not make the generation fail; the
   success message is printed only after generateServer has completed. *)
C25_CliFailureHandling ==
  /\ pc = "exit1" => (log[Len(log)] = CLI_ERROR /\ ~Printed(SUCCESS_MESSAGE))
  /\ Printed(SUCCESS_MESSAGE)
       => (pc = "succeeded" /\ outDir.unlinkTried /\ outDir.indexJs /\ outDir.packageJson)
  /\ Printed(CLI_ERROR) => pc = "exit1"
  /\ pc \in {"failed", "exit1"}
       => (nread = Len(files) /\ (Printed(BUNDLING_FAILED) \/ outDir.tempFile = "absent"))
  /\ Cardinality({i \in 1..Len(log) : log[i] = SKIP_WARNING}) + Len(genDocs) = nread

(* One file could not be read, the other was embedded, and the generation
   succeeded. *)
C25_Witness ==
  /\ pc = "succeeded"
  /\ Len(files) = 2
  /\ Len(genDocs) = 1
  /\ log = <<SKIP_WARNING, SUCCESS_MESSAGE>>

====
